---- MODULE Spec2Model ----
(***************************************************************************)
(* Model of the archive search page (data join, field normalizers, filter  *)
(* predicates, sort, query-state codec) and of the cloud page (startup,    *)
(* sprites, search box, period chips, hash changes, selection and card).   *)
(*                                                                         *)
(* JavaScript strings are sequences of one-character strings, so that      *)
(* trimming, splitting, lower-casing and substring tests are computed the  *)
(* way the code computes them.  Loosely typed JSON values are records      *)
(* [t, n, s, a]: t is the runtime type, n the number, s the characters of  *)
(* a string, a the entries of an array.                                    *)
(***************************************************************************)
EXTENDS Integers, Sequences, FiniteSets, TLC

VARIABLES
    location,     \* location.search as URLSearchParams [names, q, tags, sort, era]
    fetchCloud,   \* state of the fetch of cloud.resources.json
    fetchById,    \* state of the fetch of resources.byId.json
    pc,           \* position of init(): "await", "ready", "failed"
    CLOUD,        \* source A: sequence of items
    BY_ID,        \* source B: function from stringified ids to records
    DOCS,         \* the Document collection
    allTags,      \* the Tag Index
    q,            \* current query
    activeTags,   \* Set<string> in insertion order
    activeEra,    \* active era key, or NoEra
    elsQ,         \* els.q.value
    elsSort,      \* els.sort.value
    boxes,        \* rendered tag checkboxes: sequence of [value, checked]
    chips,        \* era chips carrying the class is-active
    url,          \* parameters last written with history.replaceState
    meta,         \* number shown in els.meta
    results,      \* rendered result cards (Documents, in order)
    thrown,       \* TRUE when the last handler ended in an exception
    page,         \* the entry module the document runs: "search" or "cloud"
    searchQuery,      \* cloud page: current search text
    activePeriodKey,  \* cloud page: highlighted period key, or NoEra
    loading,          \* cloud page: indices of DOCS whose texture is loading
    sprites,          \* cloud page: the sprites array, [doc, look] each
    selectedObj,      \* cloud page: index of the selected sprite, 0 for null
    selectionRing,    \* cloud page: TRUE when selectionRing is a mesh, not null
    cardDisplay       \* cloud page: card.style.display

vars == <<location, fetchCloud, fetchById, pc, CLOUD, BY_ID, DOCS, allTags, q,
          activeTags, activeEra, elsQ, elsSort, boxes, chips, url, meta,
          results, thrown, page, searchQuery, activePeriodKey, loading, sprites,
          selectedObj, selectionRing, cardDisplay>>

\* the state of the cloud page
\* the selection and the info card of the cloud page
selectionVars == <<selectedObj, selectionRing, cardDisplay>>

cloudVars == <<searchQuery, activePeriodKey, loading, sprites, selectionVars>>

----------------------------------------------------------------------------
(* Characters *)

Lowers == <<"a","b","c","d","e","f","g","h","i","j","k","l","m",
            "n","o","p","q","r","s","t","u","v","w","x","y","z">>
Uppers == <<"A","B","C","D","E","F","G","H","I","J","K","L","M",
            "N","O","P","Q","R","S","T","U","V","W","X","Y","Z">>
Digits == <<"0","1","2","3","4","5","6","7","8","9">>

Range(f) == {f[i] : i \in DOMAIN f}

IndexOf(c, tbl) == CHOOSE i \in DOMAIN tbl : tbl[i] = c

IsUpper(c) == c \in Range(Uppers)
IsLower(c) == c \in Range(Lowers)
IsDigit(c) == c \in Range(Digits)
IsAlnum(c) == IsUpper(c) \/ IsLower(c) \/ IsDigit(c)
\* the regular expression class \s, and what trim() removes
Spaces == {" ", "\t", "\n"}
IsSpace(c) == c \in Spaces

DigitVal(c) == IndexOf(c, Digits) - 1

LowerChar(c) == IF IsUpper(c) THEN Lowers[IndexOf(c, Uppers)] ELSE c

\* String.prototype.toLowerCase
toLowerCase(s) == [i \in 1..Len(s) |-> LowerChar(s[i])]

\* Array.prototype.join / flattening of a sequence of strings
RECURSIVE Join(_, _)
Join(parts, sep) ==
    IF Len(parts) = 0 THEN <<>>
    ELSE IF Len(parts) = 1 THEN parts[1]
    ELSE parts[1] \o sep \o Join(Tail(parts), sep)

\* String.prototype.split on a one-character separator class: always at
\* least one piece, empty pieces kept
RECURSIVE SplitOn(_, _, _)
SplitOn(s, seps, cur) ==
    IF Len(s) = 0 THEN <<cur>>
    ELSE IF s[1] \in seps THEN <<cur>> \o SplitOn(Tail(s), seps, <<>>)
    ELSE SplitOn(Tail(s), seps, Append(cur, s[1]))

\* s.replace(/X+/g, ' ') : every maximal run of the class becomes one space
RECURSIVE CollapseRuns(_, _, _)
CollapseRuns(s, class, inRun) ==
    IF Len(s) = 0 THEN <<>>
    ELSE IF s[1] \in class
         THEN (IF inRun THEN <<>> ELSE <<" ">>) \o CollapseRuns(Tail(s), class, TRUE)
         ELSE <<s[1]>> \o CollapseRuns(Tail(s), class, FALSE)

\* String.prototype.trim
trim(s) ==
    IF \A i \in 1..Len(s) : IsSpace(s[i]) THEN <<>>
    ELSE LET lo == CHOOSE i \in 1..Len(s) :
                       ~IsSpace(s[i]) /\ \A j \in 1..(i-1) : IsSpace(s[j])
             hi == CHOOSE i \in 1..Len(s) :
                       ~IsSpace(s[i]) /\ \A j \in (i+1)..Len(s) : IsSpace(s[j])
         IN  SubSeq(s, lo, hi)

\* s.split(/\s+/) : split on maximal runs of whitespace
SplitWS(s) == SplitOn(CollapseRuns(s, Spaces, FALSE), {" "}, <<>>)

\* String.prototype.includes
includes(h, t) ==
    \E i \in 0..(Len(h) - Len(t)) : SubSeq(h, i + 1, i + Len(t)) = t

SelectNonEmpty(parts) == SelectSeq(parts, LAMBDA p : Len(p) > 0)

----------------------------------------------------------------------------
(* JSON values *)

Undef     == [t |-> "undefined", n |-> 0, s |-> <<>>, a |-> <<>>]
Null      == [t |-> "null",      n |-> 0, s |-> <<>>, a |-> <<>>]
\* a value of type number that is not finite (JSON 1e999 parses to Infinity)
NonFinite == [t |-> "nonfinite", n |-> 0, s |-> <<>>, a |-> <<>>]
True      == [t |-> "boolean",   n |-> 1, s |-> <<>>, a |-> <<>>]
Num(k)    == [t |-> "number",    n |-> k, s |-> <<>>, a |-> <<>>]
Str(x)    == [t |-> "string",    n |-> 0, s |-> x,    a |-> <<>>]
Arr(x)    == [t |-> "array",     n |-> 0, s |-> <<>>, a |-> x]

\* JavaScript truthiness
Truthy(v) ==
    CASE v.t \in {"undefined", "null"} -> FALSE
      [] v.t = "number"  -> v.n # 0
      [] v.t = "string"  -> Len(v.s) > 0
      [] OTHER           -> TRUE

\* x || y
OrElse(x, y) == IF Truthy(x) THEN x ELSE y
\* x ?? y
Coalesce(x, y) == IF x.t \in {"undefined", "null"} THEN y ELSE x

----------------------------------------------------------------------------
(* Field normalizers *)

RECURSIVE DropLeadingWS(_)
DropLeadingWS(s) ==
    IF Len(s) > 0 /\ IsSpace(s[1]) THEN DropLeadingWS(Tail(s)) ELSE s

RECURSIVE DigitPrefix(_)
DigitPrefix(s) ==
    IF Len(s) > 0 /\ IsDigit(s[1]) THEN <<s[1]>> \o DigitPrefix(Tail(s)) ELSE <<>>

RECURSIVE DigitsValue(_, _)
DigitsValue(s, acc) ==
    IF Len(s) = 0 THEN acc ELSE DigitsValue(Tail(s), 10 * acc + DigitVal(s[1]))

\* parseInt(s, 10): leading whitespace skipped, an optional sign, then the
\* longest run of decimal digits; NaN when that run is empty
parseInt(s) ==
    LET t0  == DropLeadingWS(s)
        sgn == Len(t0) > 0 /\ t0[1] \in {"+", "-"}
        t1  == IF sgn THEN Tail(t0) ELSE t0
        ds  == DigitPrefix(t1)
    IN  IF Len(ds) = 0 THEN NonFinite
        ELSE Num((IF sgn /\ t0[1] = "-" THEN -1 ELSE 1) * DigitsValue(ds, 0))

numericYear(y) ==
    IF y.t = "number" THEN y
    ELSE IF y.t = "string"
         THEN LET n == parseInt(y.s) IN IF n.t = "number" THEN n ELSE Null
         ELSE Null

\* the base name with its extension left in place
KeepExt(base) == base

\* base.replace(/\.[a-z0-9]+$/i, '')
StripExt(base) ==
    IF \E i \in 1..(Len(base) - 1) :
           base[i] = "." /\ \A j \in (i+1)..Len(base) : IsAlnum(base[j])
    THEN LET i == CHOOSE i \in 1..(Len(base) - 1) :
                      base[i] = "." /\ \A j \in (i+1)..Len(base) : IsAlnum(base[j])
         IN  SubSeq(base, 1, i - 1)
    ELSE base

\* parts.slice(n)
SliceFrom(parts, n) == SubSeq(parts, n + 1, Len(parts))

DroppedSegments == 3

cleanFileDisplay(name) ==
    LET segs  == SplitOn(name, {"/"}, <<>>)
        last  == segs[Len(segs)]
        base  == IF Len(last) > 0 THEN last ELSE name
        noExt == StripExt(base)
        parts == SplitOn(noExt, {"_"}, <<>>)
        kept  == CollapseRuns(Join(SliceFrom(parts, DroppedSegments), <<" ">>),
                              {"-"}, FALSE)
    IN  trim(CollapseRuns(kept, Spaces, FALSE))

MaxTagLen == 40
MaxTagWords == 5

\* pushAny of coerceTags: the strings one candidate contributes
pushAny(val) ==
    IF ~Truthy(val) THEN <<>>
    ELSE IF val.t = "array"
         THEN LET strs == SelectSeq(val.a, LAMBDA v : v.t = "string")
              IN  [i \in 1..Len(strs) |-> strs[i].s]
         ELSE IF val.t = "string"
              THEN SplitOn(val.s, {";", ","}, <<>>)
              ELSE <<>>

\* a deduplication that compares the strings exactly
RECURSIVE DedupExact(_, _)
DedupExact(rest, acc) ==
    IF Len(rest) = 0 THEN acc
    ELSE IF \E i \in 1..Len(acc) : acc[i] = rest[1]
         THEN DedupExact(Tail(rest), acc)
         ELSE DedupExact(Tail(rest), Append(acc, rest[1]))

\* the reduce of coerceTags: keep the first of each case-insensitive value
RECURSIVE DedupCI(_, _)
DedupCI(rest, acc) ==
    IF Len(rest) = 0 THEN acc
    ELSE LET cur == rest[1]
             key == toLowerCase(cur)
         IN  IF \E i \in 1..Len(acc) : toLowerCase(acc[i]) = key
             THEN DedupCI(Tail(rest), acc)
             ELSE DedupCI(Tail(rest), Append(acc, cur))

TagKept(t) == Len(t) <= MaxTagLen /\ Len(SplitWS(t)) <= MaxTagWords

coerceTags(recTags, itemTags, topics) ==
    LET out0    == pushAny(recTags) \o pushAny(itemTags)
        out     == IF Len(out0) = 0 THEN pushAny(topics) ELSE out0
        trimmed == [i \in 1..Len(out) |-> trim(out[i])]
        nonEmpty == SelectSeq(trimmed, LAMBDA t : Len(t) > 0)
        bounded == SelectSeq(nonEmpty, TagKept)
    IN  DedupCI(bounded, <<>>)

----------------------------------------------------------------------------
(* Document builder *)

RECURSIVE NatToStr(_)
NatToStr(k) ==
    IF k < 10 THEN <<Digits[k + 1]>>
    ELSE Append(NatToStr(k \div 10), Digits[(k % 10) + 1])

\* String(it.id)
String(v) == IF v.t = "string" THEN v.s ELSE NatToStr(v.n)

\* what rec?.field reads when byId has no entry for the key
AbsentRec ==
    [title |-> Undef, year |-> Undef, description |-> Undef,
     repository |-> Undef, tags |-> Undef, url |-> Undef, topics |-> Undef,
     hires |-> Undef]

Lookup(byId, key) == IF key \in DOMAIN byId THEN byId[key] ELSE AbsentRec

Untitled == <<"U","n","t","i","t","l","e","d">>

HasUnderscore(s) == \E i \in 1..Len(s) : s[i] = "_"

\* it.documentDirect || rec?.url || it.link || null
UrlOf(it, rec) == OrElse(OrElse(OrElse(it.documentDirect, rec.url), it.link), Null)

\* the title resolved with source A before source B
RawTitleOfItemFirst(it, rec) == OrElse(OrElse(it.title, rec.title), Str(Untitled)).s

\* rec?.title || it.title || 'Untitled'
RawTitleOf(it, rec) == OrElse(OrElse(rec.title, it.title), Str(Untitled)).s

\* /_/.test(rawTitle) ? cleanFileDisplay(rawTitle) : rawTitle
DisplayOf(rawTitle) ==
    IF HasUnderscore(rawTitle) THEN cleanFileDisplay(rawTitle) ELSE rawTitle

\* the year coerced after the two sources are coalesced
YearOfCoalescedFirst(it, rec) == Coalesce(numericYear(Coalesce(it.year, rec.year)), Null)

\* (numericYear(it.year) ?? numericYear(rec?.year)) ?? null
YearOf(it, rec) == Coalesce(Coalesce(numericYear(it.year), numericYear(rec.year)), Null)

\* rec?.repository ?? it.repository ?? null
RepoOf(it, rec) == Coalesce(Coalesce(rec.repository, it.repository), Null)

\* rec?.description ?? it.description ?? null
DescriptionOf(it, rec) == Coalesce(Coalesce(rec.description, it.description), Null)

\* the callback of cloud.map in buildDocs
buildDoc(it, byId) ==
    LET rec == Lookup(byId, String(it.id))
    IN  [id          |-> it.id,
         title       |-> DisplayOf(RawTitleOf(it, rec)),
         rawTitle    |-> RawTitleOf(it, rec),
         year        |-> YearOf(it, rec),
         url         |-> UrlOf(it, rec),
         tags        |-> coerceTags(rec.tags, it.tags, rec.topics),
         repo        |-> RepoOf(it, rec),
         iconURL     |-> it.previewLocal,
         description |-> DescriptionOf(it, rec)]

\* a join that keeps only the items with a source-B record
buildDocsJoined(cloud, byId) ==
    LET kept == SelectSeq(cloud, LAMBDA it : String(it.id) \in DOMAIN byId)
    IN  [i \in 1..Len(kept) |-> buildDoc(kept[i], byId)]

buildDocs(cloud, byId) == [i \in 1..Len(cloud) |-> buildDoc(cloud[i], byId)]

----------------------------------------------------------------------------
(* Tag index *)

\* collation rank of a character, case ignored: white space, punctuation,
\* digits, letters
CollationOrder ==
    <<"\t", "\n", " ", "_", "-", ",", ";", ":", ".", "/", "+">> \o Digits \o Lowers

CharRank(c) == IndexOf(LowerChar(c), CollationOrder)

\* lexicographic comparison of two sequences of integer keys
RECURSIVE LexCompare(_, _)
LexCompare(a, b) ==
    IF Len(a) = 0 /\ Len(b) = 0 THEN 0
    ELSE IF Len(a) = 0 THEN -1
    ELSE IF Len(b) = 0 THEN 1
    ELSE IF a[1] < b[1] THEN -1
    ELSE IF a[1] > b[1] THEN 1
    ELSE LexCompare(Tail(a), Tail(b))

PrimaryKey(s) == [i \in 1..Len(s) |-> CharRank(s[i])]
CaseKey(s) == [i \in 1..Len(s) |-> IF IsUpper(s[i]) THEN 1 ELSE 0]

\* a.localeCompare(b): letters compared ignoring case first; strings equal
\* up to case are ordered lower case first
localeCompare(a, b) ==
    LET primary == LexCompare(PrimaryKey(a), PrimaryKey(b))
    IN  IF primary # 0 THEN primary
        ELSE LexCompare(CaseKey(a), CaseKey(b))

\* Array.prototype.sort, which is stable: the order it gives to the indices
\* 1..n, where cmp[i, j] is the comparator's result on the i-th and j-th
\* elements.  Insertion from the right keeps equal elements in input order.
\* an insertion that puts an element before the elements equal to it
RECURSIVE InsertIndexUnstable(_, _, _)
InsertIndexUnstable(i, sorted, cmp) ==
    IF Len(sorted) = 0 THEN <<i>>
    ELSE IF cmp[sorted[Len(sorted)], i] < 0 THEN Append(sorted, i)
    ELSE Append(InsertIndexUnstable(i, SubSeq(sorted, 1, Len(sorted) - 1), cmp),
                sorted[Len(sorted)])

RECURSIVE InsertIndex(_, _, _)
InsertIndex(i, sorted, cmp) ==
    IF Len(sorted) = 0 THEN <<i>>
    ELSE IF cmp[sorted[Len(sorted)], i] <= 0 THEN Append(sorted, i)
    ELSE Append(InsertIndex(i, SubSeq(sorted, 1, Len(sorted) - 1), cmp),
                sorted[Len(sorted)])

RECURSIVE SortedIndices(_, _)
SortedIndices(n, cmp) ==
    IF n = 0 THEN <<>> ELSE InsertIndex(n, SortedIndices(n - 1, cmp), cmp)

Reorder(xs, perm) == [k \in 1..Len(xs) |-> xs[perm[k]]]

\* Set.prototype.add over a sequence: insertion order, exact-string identity
RECURSIVE SetAddAll(_, _)
SetAddAll(acc, xs) ==
    IF Len(xs) = 0 THEN acc
    ELSE SetAddAll(IF \E i \in 1..Len(acc) : acc[i] = xs[1] THEN acc
                   ELSE Append(acc, xs[1]),
                   Tail(xs))

RECURSIVE AllDocTags(_)
AllDocTags(docs) ==
    IF Len(docs) = 0 THEN <<>> ELSE docs[1].tags \o AllDocTags(Tail(docs))

buildTagSet(docs) ==
    LET set == SetAddAll(<<>>, AllDocTags(docs))
        cmp == [i \in 1..Len(set), j \in 1..Len(set) |-> localeCompare(set[i], set[j])]
    IN  Reorder(set, SortedIndices(Len(set), cmp))

----------------------------------------------------------------------------
(* String literals *)

S_empty == <<>>
S_blank == <<" ">>
S_strike == <<"s","t","r","i","k","e">>
S_Strike == <<"S","t","r","i","k","e">>
S_labor == <<"l","a","b","o","r">>
S_StrikeCommittee == <<"S","t","r","i","k","e"," ","C","o","m","m","i","t","t","e","e">>
S_Labor == <<"L","a","b","o","r">>
S_FlyerFile == <<"x","_","y","_","z","_","F","l","y","e","r",".","j","p","g">>
S_a_b == <<"a","_","b">>
S_a_b_cPdf == <<"a","_","b","_","c",".","p","d","f">>
S_SlashFile == <<"w","_","x","_","y","_","z","/">>
S_MessyFile == <<"a","_","b","_","c","_","-","-","d"," "," ","e","_","f",".","x","1">>
S_StudentCoalitionMeeting == <<"S","t","u","d","e","n","t"," ","C","o","a","l","i","t","i","o","n"," ","M","e","e","t","i","n","g">>
S_CoalitionFile == <<"2","0","2","1","_","N","Y","U","_","f","l","y","e","r","_","S","t","u","d","e","n","t","-","C","o","a","l","i","t","i","o","n","-","M","e","e","t","i","n","g",".","p","d","f">>
S_PathFile == <<"i","m","g","/","2","0","2","1","_","N","Y","U","_","f","l","y","e","r","_","S","i","t","-","I","n",".","v","2",".","p","d","f">>
S_Foo == <<"F","o","o">>
S_foo == <<"f","o","o">>
S_FooPadded == <<" ","F","o","o"," ">>
S_bar == <<"b","a","r">>
S_a == <<"a">>
S_A == <<"A">>
S_b == <<"b">>
S_B == <<"B">>
S_c == <<"c">>
S_NYU == <<"N","Y","U">>
S_Tamiment == <<"T","a","m","i","m","e","n","t">>
S_aJpg == <<"a",".","j","p","g">>
S_bJpg == <<"b",".","j","p","g">>
S_1 == <<"1">>
S_2 == <<"2">>
S_3 == <<"3">>
S_1968 == <<"1","9","6","8">>
S_1968abc == <<"1","9","6","8","a","b","c">>
S_1968dot5 == <<"1","9","6","8",".","5">>
S_na == <<"n","/","a">>
S_pad1970 == <<" ","1","9","7","0">>
S_neg5 == <<"-","5">>
S_abc == <<"a","b","c">>
S_civilRights == <<"c","i","v","i","l",",","r","i","g","h","t","s">>
S_FooFooBar == <<"F","o","o",";"," ","f","o","o"," ",",","b","a","r">>
S_onlySeps == <<" ",","," ">>
S_fiveWords == <<"a"," ","b"," ","c"," "," ","d"," ","e">>
S_sixWords == <<"a"," ","b"," ","c"," ","d"," ","e"," ","f">>
S_laborCommaB == S_labor \o <<",">> \o S_b
S_laborCommaC == S_labor \o <<",">> \o S_c
S_laborSemiB == S_labor \o <<";">> \o S_b
S_STRIKElabor == <<"S","T","R","I","K","E"," ","l","a","b","o","r">>
S_FlyerTwo == <<"F","l","y","e","r"," ","T","w","o">>

\* tags exactly at, and one past, the length limit of coerceTags
S_atLimit   == [i \in 1..MaxTagLen |-> "x"]
S_overLimit == [i \in 1..(MaxTagLen + 1) |-> "y"]

----------------------------------------------------------------------------
(* Filtering and sorting *)

NoEra == ""

EraKeys == {"precursors", "thick", "today"}

PERIODS ==
    [precursors |-> <<1940, 1959>>, thick |-> <<1960, 1989>>, today |-> <<1990, 2100>>]

\* names every object inherits: PERIODS[name] is a function, not undefined
InheritedNames == {"constructor", "toString"}

\* truthiness of PERIODS[era]
PeriodsTruthy(era) == era \in EraKeys \/ era \in InheritedNames

SortModes == {"relevance", "year-desc", "year-asc", "title-asc"}

\* d.description || ''
TextOf(v) == IF v.t = "string" THEN v.s ELSE <<>>

\* a text match that asks for one token only
matchesTextAnyToken(d, query) ==
    IF Len(trim(query)) = 0 THEN TRUE
    ELSE LET hay  == <<toLowerCase(d.title), toLowerCase(TextOf(d.description))>>
                     \o [i \in 1..Len(d.tags) |-> toLowerCase(d.tags[i])]
             toks == SelectNonEmpty(SplitWS(toLowerCase(query)))
         IN  \E k \in 1..Len(toks) : \E h \in 1..Len(hay) : includes(hay[h], toks[k])

matchesText(d, query) ==
    IF Len(trim(query)) = 0 THEN TRUE
    ELSE LET hay  == <<toLowerCase(d.title), toLowerCase(TextOf(d.description))>>
                     \o [i \in 1..Len(d.tags) |-> toLowerCase(d.tags[i])]
             toks == SelectNonEmpty(SplitWS(toLowerCase(query)))
         IN  \A k \in 1..Len(toks) : \E h \in 1..Len(hay) : includes(hay[h], toks[k])

\* a tag match that asks for one active tag only
matchesTagsAnyTag(d, active) ==
    IF Len(active) = 0 THEN TRUE
    ELSE LET set == {toLowerCase(d.tags[i]) : i \in 1..Len(d.tags)}
         IN  \E k \in 1..Len(active) : toLowerCase(active[k]) \in set

matchesTags(d, active) ==
    IF Len(active) = 0 THEN TRUE
    ELSE LET set == {toLowerCase(d.tags[i]) : i \in 1..Len(d.tags)}
         IN  \A k \in 1..Len(active) : toLowerCase(active[k]) \in set

\* destructuring PERIODS[activeEra] throws unless it is one of the three arrays
matchesEraThrows(era) == era # NoEra /\ era \notin EraKeys

\* an era test whose upper bound is exclusive
matchesEraExclusive(d, era) ==
    IF era = NoEra THEN TRUE
    ELSE LET y == numericYear(d.year)
         IN  y.t = "number" /\ y.n >= PERIODS[era][1] /\ y.n < PERIODS[era][2]

matchesEra(d, era) ==
    IF era = NoEra THEN TRUE
    ELSE LET y == numericYear(d.year)
         IN  y.t = "number" /\ y.n >= PERIODS[era][1] /\ y.n <= PERIODS[era][2]

\* a score that counts the tags once, however many of them match
scoreRelevanceCapped(d, query) ==
    IF Len(trim(query)) = 0 THEN 0
    ELSE LET ql == toLowerCase(query)
         IN  (IF includes(toLowerCase(d.title), ql) THEN 5 ELSE 0)
           + (IF includes(toLowerCase(TextOf(d.description)), ql) THEN 2 ELSE 0)
           + (IF \E i \in 1..Len(d.tags) : includes(toLowerCase(d.tags[i]), ql)
              THEN 1 ELSE 0)

scoreRelevance(d, query) ==
    IF Len(trim(query)) = 0 THEN 0
    ELSE LET ql == toLowerCase(query)
         IN  (IF includes(toLowerCase(d.title), ql) THEN 5 ELSE 0)
           + (IF includes(toLowerCase(TextOf(d.description)), ql) THEN 2 ELSE 0)
           + Cardinality({i \in 1..Len(d.tags) : includes(toLowerCase(d.tags[i]), ql)})

\* numericYear(d.year) ?? dflt
YearOr(d, dflt) == LET y == numericYear(d.year) IN IF y.t = "number" THEN y.n ELSE dflt

SortCompare(sort, query, a, b) ==
    IF sort = "year-desc" THEN YearOr(b, -1) - YearOr(a, -1)
    ELSE IF sort = "year-asc" THEN YearOr(a, 1) - YearOr(b, 1)
    ELSE IF sort = "title-asc" THEN localeCompare(a.title, b.title)
    ELSE scoreRelevance(b, query) - scoreRelevance(a, query)

\* the filter callback reaches matchesEra (and throws there) only for a
\* Document that passed matchesText and matchesTags
FilterThrows(docs, query, active, era) ==
    /\ matchesEraThrows(era)
    /\ \E i \in 1..Len(docs) : matchesText(docs[i], query) /\ matchesTags(docs[i], active)

Passes(d, query, active, era) ==
    matchesText(d, query) /\ matchesTags(d, active) /\ matchesEra(d, era)

Filtered(docs, query, active, era, sort) ==
    LET kept == SelectSeq(docs, LAMBDA d : Passes(d, query, active, era))
        cmp  == [i \in 1..Len(kept), j \in 1..Len(kept) |->
                    SortCompare(sort, query, kept[i], kept[j])]
    IN  Reorder(kept, SortedIndices(Len(kept), cmp))

----------------------------------------------------------------------------
(* Query state codec *)

\* URLSearchParams: the names that are set, and the value of each; the
\* value of a name that is not set is left empty
NoParams == [names |-> {}, q |-> <<>>, tags |-> <<>>, era |-> "", sort |-> ""]

\* the parameters syncParams writes
EncodeParams(query, active, era, sort) ==
    [names |-> (IF Len(query) > 0 THEN {"q"} ELSE {})
               \cup (IF Len(active) > 0 THEN {"tags"} ELSE {})
               \cup (IF era # NoEra THEN {"era"} ELSE {})
               \cup {"sort"},
     q     |-> IF Len(query) > 0 THEN query ELSE <<>>,
     tags  |-> IF Len(active) > 0 THEN Join(active, <<",">>) ELSE <<>>,
     era   |-> IF era # NoEra THEN era ELSE "",
     sort  |-> sort]

\* Set.prototype.add / delete on the insertion-ordered set
SetAdd(set, x) == IF \E i \in 1..Len(set) : set[i] = x THEN set ELSE Append(set, x)
SetDelete(set, x) == SelectSeq(set, LAMBDA y : y # x)

\* (p.get('tags') || '').split(',').filter(Boolean)
ParamTags(p) ==
    SelectNonEmpty(SplitOn(IF "tags" \in p.names THEN p.tags ELSE <<>>, {","}, <<>>))

----------------------------------------------------------------------------
(* Inputs of the search page *)

Item(id, title, year, description, tags, preview) ==
    [id |-> id, title |-> title, year |-> year, repository |-> Null,
     description |-> description, tags |-> tags, link |-> Null,
     previewLocal |-> preview, documentDirect |-> Undef]

Rec(title, year, description, repository, tags, topics) ==
    [title |-> title, year |-> year, description |-> description,
     repository |-> repository, tags |-> tags, url |-> Undef, topics |-> topics,
     hires |-> Undef]

\* items of cloud.resources.json
Item1 == Item(Num(1), Str(S_StrikeCommittee), Num(1968), Null,
              Arr(<<Str(S_labor), Str(S_b)>>), Str(S_aJpg))
Item2 == Item(Num(2), Str(S_FlyerFile), Str(S_1968abc), Str(S_Strike),
              Str(S_laborSemiB), Str(S_bJpg))
Item3 == Item(Num(3), Str(S_Labor), Null, Null,
              Arr(<<Str(S_Labor)>>), Str(S_aJpg))

\* the contents cloud.resources.json may have
CloudResponses == { <<>>, <<Item1, Item2, Item3>>, <<Item3, Item2>> }

EmptyById == [k \in {} |-> AbsentRec]

\* the contents resources.byId.json may have
ByIdResponses ==
    { EmptyById,
      [k \in {S_2, S_3} |->
          IF k = S_2 THEN Rec(Str(S_FlyerTwo), Num(1990), Str(S_empty), Str(S_NYU),
                              Undef, Undef)
          ELSE Rec(Undef, Str(S_1968), Undef, Undef, Undef, Str(S_c))] }

\* what the user may type into the query box
QueryInputs == {S_blank, S_strike, S_STRIKElabor}

\* the query strings the page may be opened with
Locations ==
    { NoParams,
      [names |-> {"q", "tags", "era", "sort"},
       q |-> S_strike, tags |-> S_laborCommaB, era |-> "thick", sort |-> "year-desc"],
      [names |-> {"tags", "era", "sort"},
       q |-> <<>>, tags |-> S_laborCommaC, era |-> "bogus", sort |-> "bogus"],
      [names |-> {"q", "tags", "era", "sort"},
       q |-> <<>>, tags |-> S_B, era |-> "constructor", sort |-> "title-asc"] }

\* largest number of tags active at once
MaxActive == 2

----------------------------------------------------------------------------
(* The search page *)

Pending == [st |-> "pending", data |-> <<>>]

Init ==
    /\ location \in Locations
    /\ fetchCloud = Pending
    /\ fetchById = Pending
    /\ pc = "await"
    /\ CLOUD = <<>>
    /\ BY_ID = EmptyById
    /\ DOCS = <<>>
    /\ allTags = <<>>
    /\ q = <<>>
    /\ activeTags = <<>>
    /\ activeEra = NoEra
    /\ elsQ = <<>>
    /\ elsSort = "relevance"
    /\ boxes = <<>>
    /\ chips = {}
    /\ url = NoParams
    /\ meta = -1
    /\ results = <<>>
    /\ thrown = FALSE
    /\ page = "search"
    /\ searchQuery = <<>>
    /\ activePeriodKey = ""
    /\ loading = {}
    /\ sprites = <<>>
    /\ selectedObj = 0
    /\ selectionRing = FALSE
    /\ cardDisplay = "none"

dataVars == <<CLOUD, BY_ID, DOCS, allTags>>
stateVars == <<q, activeTags, activeEra, elsQ, elsSort>>
viewVars == <<boxes, chips, url, meta, results, thrown>>

\* a startup that goes on as soon as one of the two fetches has resolved
OneResolved == fetchCloud.st = "ok" \/ fetchById.st = "ok"

\* await Promise.all([...]) returns: both fetches have resolved
AllResolved == fetchCloud.st = "ok" /\ fetchById.st = "ok"

\* fetch(cloud.resources.json).then(r => r.json()) settles
CloudResolves ==
    /\ page = "search"
    /\ fetchCloud.st = "pending"
    /\ \E c \in CloudResponses : fetchCloud' = [st |-> "ok", data |-> c]
    /\ UNCHANGED <<page, cloudVars, location, fetchById, pc, dataVars, stateVars, viewVars>>

CloudFails ==
    /\ page = "search"
    /\ fetchCloud.st = "pending"
    /\ fetchCloud' = [st |-> "failed", data |-> <<>>]
    /\ UNCHANGED <<page, cloudVars, location, fetchById, pc, dataVars, stateVars, viewVars>>

\* fetch(resources.byId.json).then(r => r.json()) settles
ByIdResolves ==
    /\ page = "search"
    /\ fetchById.st = "pending"
    /\ \E b \in ByIdResponses : fetchById' = [st |-> "ok", data |-> b]
    /\ UNCHANGED <<page, cloudVars, location, fetchCloud, pc, dataVars, stateVars, viewVars>>

ByIdFails ==
    /\ page = "search"
    /\ fetchById.st = "pending"
    /\ fetchById' = [st |-> "failed", data |-> <<>>]
    /\ UNCHANGED <<page, cloudVars, location, fetchCloud, pc, dataVars, stateVars, viewVars>>

\* Promise.all rejects as soon as one fetch has failed; init() ends there
InitFails ==
    /\ page = "search"
    /\ pc = "await"
    /\ fetchCloud.st = "failed" \/ fetchById.st = "failed"
    /\ pc' = "failed"
    /\ UNCHANGED <<page, cloudVars, location, fetchCloud, fetchById, dataVars, stateVars, viewVars>>

\* applyFilters with the state it is to read: either it throws in the
\* filter pass and writes nothing, or it runs syncParams and renderResults
ApplyFilters(docs, query, active, era, sort) ==
    IF FilterThrows(docs, query, active, era)
    THEN /\ thrown' = TRUE
         /\ UNCHANGED <<url, meta, results>>
    ELSE LET list == Filtered(docs, query, active, era, sort)
         IN  /\ url' = EncodeParams(query, active, era, sort)
             /\ meta' = Len(list)
             /\ results' = list
             /\ thrown' = FALSE

\* the filter state before readParams has run
FreshState == [q |-> <<>>, activeTags |-> <<>>, activeEra |-> NoEra,
               elsSort |-> "relevance"]

\* readParams: the filter state it leaves, from the parameters p of
\* location.search and the state st it finds
readParams(p, st) ==
    [q          |-> IF "q" \in p.names /\ Len(p.q) > 0 THEN p.q ELSE st.q,
     activeTags |-> SetAddAll(st.activeTags, ParamTags(p)),
     elsSort    |-> IF "sort" \in p.names /\ p.sort \in SortModes THEN p.sort
                    ELSE st.elsSort,
     activeEra  |-> IF "era" \in p.names /\ p.era # "" /\ PeriodsTruthy(p.era)
                    THEN p.era ELSE st.activeEra]

CurrentState == [q |-> q, activeTags |-> activeTags, activeEra |-> activeEra,
                 elsSort |-> elsSort]

ReadQ == readParams(location, CurrentState).q
ReadTags == readParams(location, CurrentState).activeTags
ReadSort == readParams(location, CurrentState).elsSort
ReadEra == readParams(location, CurrentState).activeEra

\* the rest of init() once both fetches have resolved: loadData's
\* assignments, buildDocs, buildTagSet, renderTagList, renderEraChips,
\* readParams, bindUI, applyFilters
InitContinues ==
    /\ page = "search"
    /\ pc = "await"
    /\ AllResolved
    /\ CLOUD' = fetchCloud.data
    /\ BY_ID' = fetchById.data
    /\ DOCS' = buildDocs(CLOUD', BY_ID')
    /\ allTags' = buildTagSet(DOCS')
    /\ boxes' = [i \in 1..Len(allTags') |->
                    [value |-> allTags'[i],
                     checked |-> \E k \in 1..Len(activeTags) : activeTags[k] = allTags'[i]]]
    /\ chips' = IF activeEra \in EraKeys THEN {activeEra} ELSE {}
    /\ q' = ReadQ
    /\ elsQ' = ReadQ
    /\ activeTags' = ReadTags
    /\ elsSort' = ReadSort
    /\ activeEra' = ReadEra
    /\ pc' = "ready"
    /\ ApplyFilters(DOCS', q', activeTags', activeEra', elsSort')
    /\ UNCHANGED <<page, cloudVars, location, fetchCloud, fetchById>>

\* input event on the query box
QueryInput ==
    /\ page = "search"
    /\ pc = "ready"
    /\ \E v \in QueryInputs :
          /\ elsQ' = v
          /\ q' = v
          /\ ApplyFilters(DOCS, v, activeTags, activeEra, elsSort)
    /\ UNCHANGED <<page, cloudVars, location, fetchCloud, fetchById, pc, dataVars,
                   activeTags, activeEra, elsSort, boxes, chips>>

\* click on the clear button
ClearClick ==
    /\ page = "search"
    /\ pc = "ready"
    /\ q' = <<>>
    /\ elsQ' = <<>>
    /\ ApplyFilters(DOCS, <<>>, activeTags, activeEra, elsSort)
    /\ UNCHANGED <<page, cloudVars, location, fetchCloud, fetchById, pc, dataVars,
                   activeTags, activeEra, elsSort, boxes, chips>>

\* change event on the sort select
SortChange ==
    /\ page = "search"
    /\ pc = "ready"
    /\ \E v \in SortModes :
          /\ elsSort' = v
          /\ ApplyFilters(DOCS, q, activeTags, activeEra, v)
    /\ UNCHANGED <<page, cloudVars, location, fetchCloud, fetchById, pc, dataVars,
                   q, elsQ, activeTags, activeEra, boxes, chips>>

\* change event on a tag checkbox: the browser has flipped box.checked
TagChange ==
    /\ page = "search"
    /\ pc = "ready"
    /\ \E i \in 1..Len(boxes) :
          LET nowChecked == ~boxes[i].checked
              t == boxes[i].value
              active == IF nowChecked THEN SetAdd(activeTags, t)
                        ELSE SetDelete(activeTags, t)
          IN  /\ Len(active) <= MaxActive
              /\ boxes' = [boxes EXCEPT ![i].checked = nowChecked]
              /\ activeTags' = active
              /\ ApplyFilters(DOCS, q, active, activeEra, elsSort)
    /\ UNCHANGED <<page, cloudVars, location, fetchCloud, fetchById, pc, dataVars,
                   q, elsQ, activeEra, elsSort, chips>>

\* click on an era chip
EraClick ==
    /\ page = "search"
    /\ pc = "ready"
    /\ \E key \in EraKeys :
          LET era == IF activeEra = key THEN NoEra ELSE key
          IN  /\ activeEra' = era
              /\ chips' = IF era # NoEra THEN {key} ELSE {}
              /\ ApplyFilters(DOCS, q, activeTags, era, elsSort)
    /\ UNCHANGED <<page, cloudVars, location, fetchCloud, fetchById, pc, dataVars,
                   q, elsQ, activeTags, elsSort, boxes>>

Next ==
    \/ CloudResolves
    \/ CloudFails
    \/ ByIdResolves
    \/ ByIdFails
    \/ InitFails
    \/ InitContinues
    \/ QueryInput
    \/ ClearClick
    \/ SortChange
    \/ TagChange
    \/ EraClick

Spec == Init /\ [][Next]_vars

----------------------------------------------------------------------------
(* The document builder and the tag index on their own: buildDocs and      *)
(* buildTagSet applied to every pair of sources drawn from the families    *)
(* below, each of which varies the fields one resolution rule reads.       *)

BaseItem == Item(Num(1), Str(S_Labor), Num(1968), Null, Arr(<<>>), Str(S_aJpg))

ById1(rec) == [k \in {S_1} |-> rec]

\* resources.byId.json without a record for id 1, or with one of recs
ByIdOver(recs) == {EmptyById} \cup {ById1(r) : r \in recs}

World(cloud, byId) == [cloud |-> cloud, byId |-> byId]

ItemTitles == {Undef, Str(S_empty), Str(S_Labor), Str(S_FlyerFile), Str(S_a_b),
               Str(S_a_b_cPdf), Str(S_SlashFile), Str(S_MessyFile)}
RecTitles  == {Undef, Null, Str(S_empty), Str(S_FlyerTwo), Str(S_CoalitionFile),
               Str(S_PathFile)}

\* two file names in one archive, neither overridden by a record
FileNamePair ==
    World(<<[BaseItem EXCEPT !.title = Str(S_CoalitionFile)],
            [BaseItem EXCEPT !.id = Num(2), !.title = Str(S_a_b)]>>, EmptyById)

TitleWorlds ==
    { World(<<[BaseItem EXCEPT !.title = t]>>, b) :
        t \in ItemTitles,
        b \in ByIdOver({[AbsentRec EXCEPT !.title = rt] : rt \in RecTitles}) }
    \cup {FileNamePair}

YearValues ==
    {Undef, Null, NonFinite, True, Arr(<<>>), Num(0), Num(1968),
     Str(S_empty), Str(S_abc), Str(S_na), Str(S_1968), Str(S_1968abc),
     Str(S_1968dot5), Str(S_pad1970), Str(S_neg5)}

YearWorlds ==
    { World(<<[BaseItem EXCEPT !.year = y]>>, b) :
        y \in YearValues,
        b \in ByIdOver({[AbsentRec EXCEPT !.year = ry] : ry \in YearValues}) }

LabelValues == {Undef, Null, Str(S_empty), Str(S_NYU)}
RecLabelValues == {Undef, Null, Str(S_empty), Str(S_Tamiment)}

LabelWorlds ==
    { World(<<[BaseItem EXCEPT !.repository = r, !.description = d]>>, b) :
        r \in LabelValues, d \in LabelValues,
        b \in ByIdOver({[AbsentRec EXCEPT !.repository = rr, !.description = rd] :
                            rr \in RecLabelValues, rd \in RecLabelValues}) }

\* longest generated tag array
MaxArr == 2

RECURSIVE SeqsUpTo(_, _)
SeqsUpTo(S, n) ==
    IF n = 0 THEN {<<>>}
    ELSE LET shorter == SeqsUpTo(S, n - 1)
         IN  shorter \cup {Append(x, e) : x \in {y \in shorter : Len(y) = n - 1}, e \in S}

TagAtoms == {Str(S_Foo), Str(S_foo), Str(S_FooPadded)}

TagValues ==
    {Arr(x) : x \in SeqsUpTo(TagAtoms, MaxArr)}
    \cup {Undef, Null, Str(S_empty), Str(S_civilRights), Str(S_FooFooBar),
          Str(S_onlySeps),
          Arr(<<Str(S_atLimit), Str(S_overLimit), Num(3)>>),
          Arr(<<Str(S_sixWords), Str(S_fiveWords), Str(S_blank)>>)}

TopicValues == {Undef, Str(S_civilRights), Arr(<<Str(S_bar), Str(S_Foo)>>)}

TagWorlds ==
    { World(<<[BaseItem EXCEPT !.tags = it]>>, b) :
        it \in TagValues,
        b \in ByIdOver({[AbsentRec EXCEPT !.tags = rt, !.topics = tp] :
                            rt \in TagValues, tp \in TopicValues}) }

\* largest number of items in a generated cloud.resources.json
MaxItems == 2

ManyItems ==
    { Item(id, Str(S_Labor), Null, Null, tg, pv) :
        id \in {Num(1), Num(2), Str(S_1)},
        tg \in {Arr(<<Str(S_Foo)>>), Arr(<<Str(S_foo), Str(S_bar)>>)},
        pv \in {Str(S_aJpg), Str(S_bJpg)} }

ManyWorlds ==
    { World(c, b) :
        c \in SeqsUpTo(ManyItems, MaxItems),
        b \in {EmptyById, ById1([AbsentRec EXCEPT !.tags = Str(S_B)])} }

BuildWorlds == TitleWorlds \cup YearWorlds \cup LabelWorlds \cup TagWorlds \cup ManyWorlds

InitBuild ==
    /\ \E w \in BuildWorlds : CLOUD = w.cloud /\ BY_ID = w.byId
    /\ pc = "input"
    /\ location = NoParams
    /\ fetchCloud = Pending
    /\ fetchById = Pending
    /\ DOCS = <<>>
    /\ allTags = <<>>
    /\ q = <<>>
    /\ activeTags = <<>>
    /\ activeEra = NoEra
    /\ elsQ = <<>>
    /\ elsSort = "relevance"
    /\ boxes = <<>>
    /\ chips = {}
    /\ url = NoParams
    /\ meta = -1
    /\ results = <<>>
    /\ thrown = FALSE
    /\ page = "search"
    /\ searchQuery = <<>>
    /\ activePeriodKey = ""
    /\ loading = {}
    /\ sprites = <<>>
    /\ selectedObj = 0
    /\ selectionRing = FALSE
    /\ cardDisplay = "none"

\* DOCS = buildDocs(CLOUD, BY_ID); allTags = buildTagSet(DOCS)
Build ==
    /\ page = "search"
    /\ pc = "input"
    /\ DOCS' = buildDocs(CLOUD, BY_ID)
    /\ allTags' = buildTagSet(DOCS')
    /\ pc' = "built"
    /\ UNCHANGED <<page, cloudVars, location, fetchCloud, fetchById, CLOUD, BY_ID, stateVars, viewVars>>

NextBuild == Build

SpecBuild == InitBuild /\ [][NextBuild]_vars

----------------------------------------------------------------------------
(* Properties of the document builder, checked under SpecBuild *)

Built == pc = "built"

RecFor(i) == Lookup(BY_ID, String(CLOUD[i].id))
HasRec(i) == String(CLOUD[i].id) \in DOMAIN BY_ID

NonEmptyStr(v) == v.t = "string" /\ Len(v.s) > 0

EqIgnoreCase(a, b) ==
    Len(a) = Len(b) /\ \A k \in 1..Len(a) : LowerChar(a[k]) = LowerChar(b[k])

\* C1: buildDocs returns exactly one Document per source-A item, in source-A
\* order: the i-th Document carries the id and the previewLocal of the i-th
\* item unchanged, whether or not source B has a record for the item.
C1_OneDocPerItem ==
    Built =>
        /\ Len(DOCS) = Len(CLOUD)
        /\ \A i \in 1..Len(CLOUD) :
              /\ DOCS[i].id = CLOUD[i].id
              /\ DOCS[i].iconURL = CLOUD[i].previewLocal

\* two different items, the first without a source-B record, both built
C1_Witness ==
    /\ Built
    /\ Len(CLOUD) = 2 /\ Len(DOCS) = 2
    /\ CLOUD[1].id # CLOUD[2].id
    /\ CLOUD[1].previewLocal # CLOUD[2].previewLocal
    /\ ~HasRec(1) /\ HasRec(2)

\* C2: Document ids are unique in the collection buildDocs produces, for any
\* source-A input: exactly one Document per distinct identity of source A.
C2_UniqueIds ==
    Built =>
        /\ \A i, j \in 1..Len(DOCS) : i # j => DOCS[i].id # DOCS[j].id
        /\ Len(DOCS) = Cardinality({CLOUD[i].id : i \in 1..Len(CLOUD)})

\* C3: the raw title is the first non-empty of source-B title, source-A
\* title and "Untitled"; the display title is cleanFileDisplay(raw title)
\* exactly when the raw title contains an underscore, else the raw title;
\* rawTitle keeps the uncleaned value.
C3_Title ==
    Built =>
        \A i \in 1..Len(CLOUD) :
            LET raw == IF NonEmptyStr(RecFor(i).title) THEN RecFor(i).title.s
                       ELSE IF NonEmptyStr(CLOUD[i].title) THEN CLOUD[i].title.s
                       ELSE <<"U","n","t","i","t","l","e","d">>
            IN  /\ DOCS[i].rawTitle = raw
                /\ DOCS[i].title = IF "_" \in Range(raw) THEN cleanFileDisplay(raw)
                                   ELSE raw

\* an empty source-B title, a source-A file name: cleaned for display
C3_Witness ==
    /\ Built
    /\ \E i \in 1..Len(CLOUD) :
          /\ HasRec(i) /\ RecFor(i).title = Str(<<>>)
          /\ NonEmptyStr(CLOUD[i].title) /\ "_" \in Range(CLOUD[i].title.s)
          /\ DOCS[i].rawTitle = CLOUD[i].title.s
          /\ DOCS[i].title # DOCS[i].rawTitle
          /\ Len(DOCS[i].title) > 0

\* C4: the Document year is numericYear(source-A year) when that is not
\* null, else numericYear(source-B year) when that is not null, else null;
\* a source-A year that fails coercion does not block a source-B year.
C4_Year ==
    Built =>
        \A i \in 1..Len(CLOUD) :
            LET a == numericYear(CLOUD[i].year)
                b == numericYear(RecFor(i).year)
            IN  DOCS[i].year = IF a.t # "null" THEN a
                               ELSE IF b.t # "null" THEN b
                               ELSE Null

\* a source-A year string that fails coercion, a valid source-B year taken
C4_Witness ==
    /\ Built
    /\ \E i \in 1..Len(CLOUD) :
          /\ CLOUD[i].year.t = "string"
          /\ numericYear(CLOUD[i].year) = Null
          /\ HasRec(i) /\ RecFor(i).year.t = "number"
          /\ DOCS[i].year = RecFor(i).year

\* the whole string is a base-10 integer: optional leading white space, an
\* optional sign, then digits up to the end
IsWholeInt(s) ==
    \E k \in 1..Len(s) :
        /\ \A j \in k..Len(s) : IsDigit(s[j])
        /\ \A j \in 1..(k-1) : IsSpace(s[j]) \/ (j = k - 1 /\ s[j] \in {"+", "-"})

\* C5: numericYear returns a finite number unchanged, the integer value of a
\* string only when the whole string parses as a base-10 integer, and null
\* for every other input.  (Read off the year of a Document whose item has
\* no source-B record, which is numericYear of the item's year.)
C5_NumericYear ==
    Built =>
        \A i \in 1..Len(CLOUD) :
            ~HasRec(i) =>
                LET y == CLOUD[i].year
                IN  DOCS[i].year = IF y.t = "number" THEN y
                                   ELSE IF y.t = "string" /\ IsWholeInt(y.s)
                                        THEN parseInt(y.s)
                                        ELSE Null

\* C6: repo and description each resolve to the first non-empty, non-null
\* value of source B, then source A: with the source-B value absent, null or
\* empty and a non-empty source-A string, the Document carries source A's.
C6_RepoDescription ==
    Built =>
        \A i \in 1..Len(CLOUD) :
            /\ NonEmptyStr(RecFor(i).repository) => DOCS[i].repo = RecFor(i).repository
            /\ ~NonEmptyStr(RecFor(i).repository) /\ NonEmptyStr(CLOUD[i].repository)
                  => DOCS[i].repo = CLOUD[i].repository
            /\ NonEmptyStr(RecFor(i).description)
                  => DOCS[i].description = RecFor(i).description
            /\ ~NonEmptyStr(RecFor(i).description) /\ NonEmptyStr(CLOUD[i].description)
                  => DOCS[i].description = CLOUD[i].description

\* the strings the tag sources of item i supply, trimmed, in the order
\* primary then secondary (topics when those two supply none)
TagCandidates(i) ==
    LET c0 == pushAny(RecFor(i).tags) \o pushAny(CLOUD[i].tags)
        c  == IF Len(c0) = 0 THEN pushAny(RecFor(i).topics) ELSE c0
    IN  [j \in 1..Len(c) |-> trim(c[j])]

WordCount(t) ==
    Cardinality({k \in 1..Len(t) : ~IsSpace(t[k]) /\ (k = 1 \/ IsSpace(t[k-1]))})

WellFormedTag(t) ==
    /\ Len(t) > 0 /\ ~IsSpace(t[1]) /\ ~IsSpace(t[Len(t)])
    /\ Len(t) <= 40
    /\ WordCount(t) <= 5

\* C7: the list coerceTags returns holds only trimmed, non-empty strings of
\* at most 40 characters and at most 5 words, no two equal ignoring case,
\* and is exactly the first occurrences (casing and relative order) of the
\* admissible candidates.
C7_Tags ==
    Built =>
        \A i \in 1..Len(CLOUD) :
            LET out   == DOCS[i].tags
                c     == TagCandidates(i)
                first == {j \in 1..Len(c) :
                            /\ WellFormedTag(c[j])
                            /\ \A j2 \in 1..(j-1) : ~EqIgnoreCase(c[j2], c[j])}
            IN  /\ \A k \in 1..Len(out) : WellFormedTag(out[k])
                /\ \A k1, k2 \in 1..Len(out) :
                      k1 # k2 => ~EqIgnoreCase(out[k1], out[k2])
                /\ Len(out) = Cardinality(first)
                /\ \A k \in 1..Len(out) :
                      out[k] = c[CHOOSE j \in first :
                                    Cardinality({j2 \in first : j2 <= j}) = k]

\* "Foo" from the primary source before "foo" and " Foo " from the
\* secondary one: the single entry "Foo"
C7_Witness ==
    /\ Built
    /\ \E i \in 1..Len(CLOUD) :
          /\ pushAny(RecFor(i).tags) = <<S_Foo>>
          /\ pushAny(CLOUD[i].tags) = <<S_foo, S_FooPadded>>
          /\ DOCS[i].tags = <<S_Foo>>

\* C8: the Tag Index never holds two entries that differ only in letter
\* case (the first-seen casing is the one kept), and its entries are in
\* ascending locale-comparison order.
C8_TagIndex ==
    Built =>
        /\ \A i, j \in 1..Len(allTags) :
              i # j => ~EqIgnoreCase(allTags[i], allTags[j])
        /\ \A i, j \in 1..Len(allTags) :
              i < j => localeCompare(allTags[i], allTags[j]) <= 0
        /\ LET seen == AllDocTags(DOCS)
           IN  \A i \in 1..Len(allTags) :
                  \E k \in 1..Len(seen) :
                     /\ seen[k] = allTags[i]
                     /\ \A k2 \in 1..(k-1) : ~EqIgnoreCase(seen[k2], seen[k])

----------------------------------------------------------------------------
(* Properties of the filter predicates, checked under Spec *)

Ready == pc = "ready"

InResults(d) == \E k \in 1..Len(results) : results[k] = d

\* the maximal runs of non-white-space characters of a query
TokensOf(query) ==
    {SubSeq(query, i, j) : <<i, j>> \in
        {x \in (1..Len(query)) \X (1..Len(query)) :
            /\ x[1] <= x[2]
            /\ \A k \in x[1]..x[2] : ~IsSpace(query[k])
            /\ x[1] = 1 \/ IsSpace(query[x[1] - 1])
            /\ x[2] = Len(query) \/ IsSpace(query[x[2] + 1])}}

ContainsIgnoreCase(h, t) ==
    \E off \in 0..(Len(h) - Len(t)) :
        \A k \in 1..Len(t) : LowerChar(h[off + k]) = LowerChar(t[k])

FieldsOf(d) ==
    {d.title}
    \cup (IF d.description.t = "string" THEN {d.description.s} ELSE {})
    \cup Range(d.tags)

TextClaim(d, query) ==
    \/ \A k \in 1..Len(query) : IsSpace(query[k])
    \/ \A t \in TokensOf(query) : \E f \in FieldsOf(d) : ContainsIgnoreCase(f, t)

\* C9: matchesText(d, query) is true for an empty or white-space query, and
\* otherwise exactly when every white-space-separated token of the query is
\* a case-insensitive substring of the title, the description or one of the
\* tags; with no tag and no era active, the rendered results are the
\* Documents for which that holds.
C9_MatchesText ==
    \A i \in 1..Len(DOCS) :
        /\ matchesText(DOCS[i], q) <=> TextClaim(DOCS[i], q)
        /\ (Ready /\ ~thrown /\ activeTags = <<>> /\ activeEra = NoEra)
              => (InResults(DOCS[i]) <=> TextClaim(DOCS[i], q))

\* a two-token query: one Document passes on two different fields, another
\* holds one of the tokens only and is left out
C9_Witness ==
    /\ Ready /\ ~thrown /\ activeTags = <<>> /\ activeEra = NoEra
    /\ q = S_STRIKElabor
    /\ \E i, j \in 1..Len(DOCS) :
          /\ InResults(DOCS[i])
          /\ ContainsIgnoreCase(DOCS[i].title, S_strike)
          /\ ~ContainsIgnoreCase(DOCS[i].title, S_labor)
          /\ ~InResults(DOCS[j])
          /\ ContainsIgnoreCase(DOCS[j].title, S_labor)

TagsClaim(d, active) ==
    \/ Len(active) = 0
    \/ \A k \in 1..Len(active) : \E u \in Range(d.tags) : EqIgnoreCase(active[k], u)

\* C10: matchesTags(d) is true when no tag is active, and otherwise exactly
\* when every active tag equals, ignoring case, some tag of the Document;
\* with a blank query and no era active, the rendered results are the
\* Documents for which that holds.
C10_MatchesTags ==
    \A i \in 1..Len(DOCS) :
        /\ matchesTags(DOCS[i], activeTags) <=> TagsClaim(DOCS[i], activeTags)
        /\ (Ready /\ ~thrown /\ Len(trim(q)) = 0 /\ activeEra = NoEra)
              => (InResults(DOCS[i]) <=> TagsClaim(DOCS[i], activeTags))

\* two active tags: one Document carries both (one of them in another
\* casing) and passes, another carries only one of them and is left out
C10_Witness ==
    /\ Ready /\ ~thrown /\ Len(trim(q)) = 0 /\ activeEra = NoEra
    /\ Len(activeTags) = 2
    /\ \E i, j \in 1..Len(DOCS) :
          /\ InResults(DOCS[i])
          /\ \E k \in 1..2 : activeTags[k] \notin Range(DOCS[i].tags)
          /\ ~InResults(DOCS[j])
          /\ \E k \in 1..2 : activeTags[k] \in Range(DOCS[j].tags)

----------------------------------------------------------------------------
(* The search page over further file contents: init() from the moment both *)
(* fetches have resolved, followed by the user's events.  The two files    *)
(* below carry the years at the era bounds, a negative and a missing year, *)
(* and titles, descriptions and tags that score differently.               *)

S_1959 == <<"1","9","5","9">>
S_Strikers == <<"S","t","r","i","k","e","r","s">>
S_aStrike == <<"a"," ","s","t","r","i","k","e">>
S_StrikeLaborDay == S_Strike \o <<" ">> \o S_Labor \o <<" ","D","a","y">>

YearItem(id, year) == Item(Num(id), Str(S_a), year, Null, Arr(<<>>), Str(S_aJpg))

\* a cloud.resources.json whose years sit on and around the era bounds
EraCloud ==
    << YearItem(1, Num(2101)), YearItem(2, Num(1940)), YearItem(3, Str(S_1959)),
       YearItem(4, Null),      YearItem(5, Num(1960)), YearItem(6, Num(2100)),
       YearItem(7, Num(1989)), YearItem(8, Num(1939)), YearItem(9, Num(1990)) >>

\* a cloud.resources.json whose items score 4, 5, 8, 5 and 0 for "strike"
RankCloud ==
    << Item(Num(1), Str(S_Labor), Num(1960), Str(S_StrikeLaborDay),
            Arr(<<Str(S_Strikers), Str(S_strike)>>), Str(S_aJpg)),
       Item(Num(2), Str(S_Strike), Null, Null, Arr(<<>>), Str(S_bJpg)),
       Item(Num(3), Str(S_StrikeCommittee), Num(1959), Str(S_aStrike),
            Arr(<<Str(S_strike), Str(S_labor)>>), Str(S_aJpg)),
       Item(Num(4), Str(S_Strike), Str(S_neg5), Null, Arr(<<Str(S_b)>>), Str(S_bJpg)),
       Item(Num(5), Str(S_Labor), Num(2100), Null, Arr(<<Str(S_labor)>>), Str(S_aJpg)) >>

\* a cloud.resources.json with a tag that holds a comma
CommaCloud ==
    << Item(Num(1), Str(S_Labor), Num(1968), Null,
            Arr(<<Str(S_civilRights), Str(S_c)>>), Str(S_aJpg)) >>

LoadedClouds == {EraCloud, RankCloud, CommaCloud}

InitLoaded ==
    /\ location = NoParams
    /\ \E c \in LoadedClouds : fetchCloud = [st |-> "ok", data |-> c]
    /\ fetchById = [st |-> "ok", data |-> EmptyById]
    /\ pc = "await"
    /\ CLOUD = <<>>
    /\ BY_ID = EmptyById
    /\ DOCS = <<>>
    /\ allTags = <<>>
    /\ q = <<>>
    /\ activeTags = <<>>
    /\ activeEra = NoEra
    /\ elsQ = <<>>
    /\ elsSort = "relevance"
    /\ boxes = <<>>
    /\ chips = {}
    /\ url = NoParams
    /\ meta = -1
    /\ results = <<>>
    /\ thrown = FALSE
    /\ page = "search"
    /\ searchQuery = <<>>
    /\ activePeriodKey = ""
    /\ loading = {}
    /\ sprites = <<>>
    /\ selectedObj = 0
    /\ selectionRing = FALSE
    /\ cardDisplay = "none"

NextLoaded ==
    \/ InitContinues
    \/ QueryInput
    \/ ClearClick
    \/ SortChange
    \/ TagChange
    \/ EraClick

SpecLoaded == InitLoaded /\ [][NextLoaded]_vars

----------------------------------------------------------------------------
(* Properties of the era filter, the sort and the score, checked under     *)
(* SpecLoaded                                                              *)

\* the era bounds as the specification states them
EraClaim(year, era) ==
    \/ era = NoEra
    \/ /\ year.t = "number"
       /\ \/ era = "precursors" /\ 1940 <= year.n /\ year.n <= 1959
          \/ era = "thick"      /\ 1960 <= year.n /\ year.n <= 1989
          \/ era = "today"      /\ 1990 <= year.n /\ year.n <= 2100

\* the eras a Document of the given year passes
ErasMatching(year) == {era \in EraKeys : matchesEra([year |-> year], era)}

SweptYears == 1930..2110

\* C11: with an era active, matchesEra(d) is true exactly when the year of
\* the Document is a number inside the inclusive bounds of the era
\* (precursors 1940-1959, thick 1960-1989, today 1990-2100), and with no era
\* active it is true; every integer year matches at most one era, every year
\* from 1940 to 2100 exactly one, 1959 only precursors, 1960 only thick, 2100
\* only today, 2101 and a null year none; with a blank query and no active
\* tag the rendered results are the Documents for which that holds.
C11_MatchesEra ==
    /\ \A i \in 1..Len(DOCS) : \A era \in EraKeys \cup {NoEra} :
          matchesEra(DOCS[i], era) <=> EraClaim(DOCS[i].year, era)
    /\ \A y \in SweptYears :
          /\ Cardinality(ErasMatching(Num(y))) <= 1
          /\ (1940 <= y /\ y <= 2100) <=> Cardinality(ErasMatching(Num(y))) = 1
    /\ ErasMatching(Num(1959)) = {"precursors"}
    /\ ErasMatching(Num(1960)) = {"thick"}
    /\ ErasMatching(Num(2100)) = {"today"}
    /\ ErasMatching(Num(2101)) = {}
    /\ ErasMatching(Null) = {}
    /\ (Ready /\ ~thrown /\ Len(trim(q)) = 0 /\ activeTags = <<>>)
          => \A i \in 1..Len(DOCS) :
                InResults(DOCS[i]) <=> EraClaim(DOCS[i].year, activeEra)

HasYear(d, y) == d.year = Num(y)

\* the era "thick" is active over Documents of 1959, 1960, 1989, 1990 and of
\* no year: those of 1960 and 1989 are shown, the others are not
C11_Witness ==
    /\ Ready /\ ~thrown /\ Len(trim(q)) = 0 /\ activeTags = <<>>
    /\ activeEra = "thick"
    /\ \A y \in {1960, 1989} : \E i \in 1..Len(DOCS) :
          HasYear(DOCS[i], y) /\ InResults(DOCS[i])
    /\ \A y \in {1959, 1990} : \E i \in 1..Len(DOCS) :
          HasYear(DOCS[i], y) /\ ~InResults(DOCS[i])
    /\ \E i \in 1..Len(DOCS) : DOCS[i].year = Null /\ ~InResults(DOCS[i])

\* the Documents of DOCS that pass the three filters, in the order of DOCS
PassingDocs == SelectSeq(DOCS, LAMBDA d : Passes(d, q, activeTags, activeEra))

\* position of a Document in DOCS (ids are distinct in the files used here)
PosInDocs(d) == CHOOSE i \in 1..Len(DOCS) : DOCS[i].id = d.id

\* results holds every passing Document once and nothing else
ResultsArePassing ==
    /\ Len(results) = Len(PassingDocs)
    /\ \A i \in 1..Len(PassingDocs) : InResults(PassingDocs[i])

\* C12: in relevance mode the results are the passing Documents ordered by
\* non-increasing relevance score, Documents of equal score staying in the
\* order of source A; with an empty or blank query the results are exactly
\* the passing Documents in the order of source A.  This holds after every
\* sequence of query, tag, era and sort-mode changes: DOCS still is
\* buildDocs(CLOUD, BY_ID), no earlier sort has reordered it.
C12_Relevance ==
    (Ready /\ ~thrown /\ elsSort = "relevance") =>
        /\ DOCS = buildDocs(CLOUD, BY_ID)
        /\ ResultsArePassing
        /\ \A k, l \in 1..Len(results) : k < l =>
              \/ scoreRelevance(results[k], q) > scoreRelevance(results[l], q)
              \/ /\ scoreRelevance(results[k], q) = scoreRelevance(results[l], q)
                 /\ PosInDocs(results[k]) < PosInDocs(results[l])
        /\ Len(trim(q)) = 0 => results = PassingDocs

\* relevance mode with a query that scores the Documents differently: the
\* third Document of source A is shown first, two Documents of equal score
\* follow in source order, the first Document of source A is shown last
C12_Witness ==
    /\ Ready /\ ~thrown /\ elsSort = "relevance"
    /\ url.sort = "relevance"
    /\ Len(results) >= 4
    /\ PosInDocs(results[1]) = 3
    /\ scoreRelevance(results[2], q) = scoreRelevance(results[3], q)
    /\ PosInDocs(results[2]) < PosInDocs(results[3])
    /\ PosInDocs(results[4]) = 1

IsNumeric(d) == d.year.t = "number"

\* C13: in year-asc mode the results are the passing Documents by ascending
\* numeric year, and every Document whose year is null comes after every
\* Document that has a numeric year.
C13_YearAsc ==
    (Ready /\ ~thrown /\ elsSort = "year-asc") =>
        /\ ResultsArePassing
        /\ \A k, l \in 1..Len(results) : k < l =>
              /\ (IsNumeric(results[k]) /\ IsNumeric(results[l]))
                    => results[k].year.n <= results[l].year.n
              /\ ~(results[k].year = Null /\ IsNumeric(results[l]))

\* C14: in year-desc mode the results are the passing Documents by
\* descending numeric year, and every Document whose year is null comes
\* after every Document that has a numeric year.
C14_YearDesc ==
    (Ready /\ ~thrown /\ elsSort = "year-desc") =>
        /\ ResultsArePassing
        /\ \A k, l \in 1..Len(results) : k < l =>
              /\ (IsNumeric(results[k]) /\ IsNumeric(results[l]))
                    => results[k].year.n >= results[l].year.n
              /\ ~(results[k].year = Null /\ IsNumeric(results[l]))

\* the score as the specification states it
ScoreClaim(d, query) ==
    IF \A k \in 1..Len(query) : IsSpace(query[k]) THEN 0
    ELSE (IF ContainsIgnoreCase(d.title, query) THEN 5 ELSE 0)
       + (IF d.description.t = "string" /\ ContainsIgnoreCase(d.description.s, query)
          THEN 2 ELSE 0)
       + Cardinality({i \in 1..Len(d.tags) : ContainsIgnoreCase(d.tags[i], query)})

\* the Document of the specification's example
IsExampleDoc(d) ==
    /\ d.title = S_StrikeCommittee
    /\ d.description.t = "string" /\ ContainsIgnoreCase(d.description.s, S_strike)
    /\ d.tags = <<S_strike, S_labor>>

\* C15: for a query that is not blank, scoreRelevance is 5 when the title
\* contains the whole query ignoring case, plus 2 when the description does,
\* plus 1 for every tag that does, with no cap; for a blank query it is 0.
\* The query "strike" scores 8 on the title "Strike Committee" with a
\* description containing "strike" and the tags strike and labor.  In
\* relevance mode the rendered results follow that score.
C15_Score ==
    /\ \A i \in 1..Len(DOCS) : \A query \in QueryInputs \cup {<<>>, q} :
          scoreRelevance(DOCS[i], query) = ScoreClaim(DOCS[i], query)
    /\ \A i \in 1..Len(DOCS) :
          IsExampleDoc(DOCS[i]) => scoreRelevance(DOCS[i], S_strike) = 8
    /\ (Ready /\ ~thrown /\ elsSort = "relevance") =>
          \A k, l \in 1..Len(results) :
              k < l => ScoreClaim(results[k], q) >= ScoreClaim(results[l], q)

\* the query "strike" in relevance mode: the example Document scores 8 and
\* is shown first, a Document scoring 5 on its title alone follows, and a
\* Document with two matching tags and a matching description scores 4
C15_Witness ==
    /\ Ready /\ ~thrown /\ elsSort = "relevance" /\ q = S_strike
    /\ Len(results) >= 3
    /\ IsExampleDoc(results[1]) /\ ScoreClaim(results[1], q) = 8
    /\ ScoreClaim(results[2], q) = 5
    /\ \E k \in 1..Len(results) :
          /\ ScoreClaim(results[k], q) = 4
          /\ Cardinality({i \in 1..Len(results[k].tags) :
                             ContainsIgnoreCase(results[k].tags[i], q)}) = 2

----------------------------------------------------------------------------
(* Properties of the query-state codec *)

\* the tags of the Documents
DocTagSet == UNION {Range(DOCS[i].tags) : i \in 1..Len(DOCS)}

\* C16: for every filter state (query, active tags taken from the tags of
\* the Documents, an era key or none, a sort mode), reading the parameters
\* syncParams has written into a fresh state with readParams gives the same
\* query, the same set of tags, the same era and the same sort mode.
C16_RoundTrip ==
    (/\ Ready /\ ~thrown
     /\ Range(activeTags) \subseteq DocTagSet
     /\ activeEra \in EraKeys \cup {NoEra})
    => LET back == readParams(url, FreshState)
       IN  /\ url = EncodeParams(q, activeTags, activeEra, elsSort)
           /\ back.q = q
           /\ Range(back.activeTags) = Range(activeTags)
           /\ back.activeEra = activeEra
           /\ back.elsSort = elsSort

\* C17: readParams ignores unknown values: when init() runs readParams and
\* applyFilters, a sort parameter outside the four modes leaves the sort
\* mode at its default, an era parameter that is not one of the three era
\* keys (an inherited name such as constructor included) leaves no era
\* active, and the applyFilters that follows ends without an exception.
C17_UnknownIgnored ==
    [][ (pc = "await" /\ pc' = "ready") =>
           /\ location.sort \notin SortModes => elsSort' = "relevance"
           /\ location.era \notin EraKeys => activeEra' = NoEra
           /\ ~thrown' ]_vars

\* C18: once init() has run its applyFilters, and after every query input,
\* clear, tag change, era click and sort change, the URL last written with
\* history.replaceState encodes the current state: q is present exactly when
\* the query is not empty and then holds it, tags exactly when some tag is
\* active and then holds the active tags joined by commas, era exactly when
\* an era is active and then holds it, sort always and holds the sort mode;
\* and the number in the result count is the number of Documents that pass
\* the current filters.
C18_UrlAndCount ==
    Ready =>
        /\ ("q" \in url.names) <=> (q # <<>>)
        /\ "q" \in url.names => url.q = q
        /\ ("tags" \in url.names) <=> (activeTags # <<>>)
        /\ "tags" \in url.names => url.tags = Join(activeTags, <<",">>)
        /\ ("era" \in url.names) <=> (activeEra # NoEra)
        /\ "era" \in url.names => url.era = activeEra
        /\ "sort" \in url.names /\ url.sort = elsSort
        /\ ~FilterThrows(DOCS, q, activeTags, activeEra)
        /\ meta = Len(PassingDocs)

----------------------------------------------------------------------------
(* The cloud page (main.ts): the same two files, joined without coercion,  *)
(* one sprite per Document once its texture has loaded, and a search box   *)
(* and period chips that restyle the sprites.                              *)

\* the state of the search page
searchPageVars == <<location, allTags, q, activeTags, activeEra, elsQ, elsSort,
                    boxes, chips, url, meta, results>>

\* v.length is a positive number
HasLength(v) == (v.t = "array" /\ Len(v.a) > 0) \/ (v.t = "string" /\ Len(v.s) > 0)

\* (rec?.tags && rec.tags.length ? rec.tags : it.tags) || []
CloudTagsOf(it, rec) ==
    OrElse(IF Truthy(rec.tags) /\ HasLength(rec.tags) THEN rec.tags ELSE it.tags,
           Arr(<<>>))

\* the callback of cloud.map in buildDocsFromData
buildDocFromData(it, byId) ==
    LET rec == Lookup(byId, String(it.id))
    IN  [id          |-> it.id,
         title       |-> OrElse(OrElse(it.title, rec.title), Str(Untitled)).s,
         year        |-> Coalesce(Coalesce(it.year, rec.year), Null),
         url         |-> UrlOf(it, rec),
         tags        |-> CloudTagsOf(it, rec),
         repo        |-> RepoOf(it, rec),
         iconURL     |-> it.previewLocal,
         description |-> DescriptionOf(it, rec)]

buildDocsFromData(cloud, byId) ==
    [i \in 1..Len(cloud) |-> buildDocFromData(cloud[i], byId)]

\* rec?.hires?.[0]
FirstHires(rec) ==
    IF rec.hires.t = "array" /\ Len(rec.hires.a) > 0 THEN rec.hires.a[1] ELSE Undef

displayTitleFor(doc, byId) ==
    LET rec     == Lookup(byId, String(doc.id))
        fromUrl == OrElse(OrElse(FirstHires(rec), doc.url), Str(<<>>))
        segs    == SplitOn(fromUrl.s, {"/"}, <<>>)
        base    == segs[Len(segs)]
    IN  IF Truthy(rec.title) /\ HasUnderscore(rec.title.s)
        THEN cleanFileDisplay(rec.title.s)
        ELSE IF HasUnderscore(doc.title) THEN cleanFileDisplay(doc.title)
        ELSE IF Truthy(fromUrl) /\ HasUnderscore(base) THEN cleanFileDisplay(base)
        ELSE IF Len(doc.title) > 0 THEN doc.title
        ELSE OrElse(rec.title, Str(Untitled)).s

\* (tags || []).map(t => String(t).toLowerCase()) on an array
LowerTagStrings(v) ==
    IF v.t = "array" THEN [i \in 1..Len(v.a) |-> toLowerCase(String(v.a[i]))] ELSE <<>>

\* a string has no map method: (meta.tags || []).map throws when the tags
\* of the Document are a non-empty string; a blank query returns before
matchesQueryThrows(doc, query) ==
    Len(trim(query)) > 0 /\ doc.tags.t = "string"

TagPrefix == <<"t","a","g",":">>

\* t.match(/^tag:(.+)$/)
IsTagToken(t) == Len(t) > Len(TagPrefix) /\ SubSeq(t, 1, Len(TagPrefix)) = TagPrefix

\* a tag token that is satisfied by a tag containing the wanted value
matchesQuerySubstring(doc, query, byId) ==
    IF Len(trim(query)) = 0 THEN TRUE
    ELSE LET rec  == Lookup(byId, String(doc.id))
             pool == LowerTagStrings(doc.tags) \o LowerTagStrings(rec.tags)
             hay  == <<toLowerCase(displayTitleFor(doc, byId)),
                       toLowerCase(TextOf(doc.description))>> \o pool
             toks == SelectNonEmpty(SplitWS(toLowerCase(query)))
         IN  \A k \in 1..Len(toks) :
                IF IsTagToken(toks[k])
                THEN \E h \in 1..Len(pool) :
                        includes(pool[h], SubSeq(toks[k], Len(TagPrefix) + 1, Len(toks[k])))
                ELSE \E h \in 1..Len(hay) : includes(hay[h], toks[k])

matchesQuery(doc, query, byId) ==
    IF Len(trim(query)) = 0 THEN TRUE
    ELSE LET rec  == Lookup(byId, String(doc.id))
             pool == LowerTagStrings(doc.tags) \o LowerTagStrings(rec.tags)
             hay  == <<toLowerCase(displayTitleFor(doc, byId)),
                       toLowerCase(TextOf(doc.description))>> \o pool
             toks == SelectNonEmpty(SplitWS(toLowerCase(query)))
         IN  \A k \in 1..Len(toks) :
                IF IsTagToken(toks[k])
                THEN SubSeq(toks[k], Len(TagPrefix) + 1, Len(toks[k])) \in Range(pool)
                ELSE \E h \in 1..Len(hay) : includes(hay[h], toks[k])

\* inPeriod of updateVisibility
InPeriod(doc, key) ==
    \/ key = NoEra
    \/ LET y == numericYear(doc.year)
       IN  y.t = "number" /\ y.n >= PERIODS[key][1] /\ y.n <= PERIODS[key][2]

\* index of the first sprite on which updateVisibility throws, or 0
FirstThrow(sps, query) ==
    IF \E i \in 1..Len(sps) : matchesQueryThrows(sps[i].doc, query)
    THEN CHOOSE i \in 1..Len(sps) :
            /\ matchesQueryThrows(sps[i].doc, query)
            /\ \A j \in 1..(i - 1) : ~matchesQueryThrows(sps[j].doc, query)
    ELSE 0

\* updateVisibility: setSpriteState on every sprite in turn, up to the first
\* one on which matchesQuery throws
Restyled(sps, key, query, byId) ==
    LET stop == FirstThrow(sps, query)
    IN  [i \in 1..Len(sps) |->
            IF stop # 0 /\ i >= stop THEN sps[i]
            ELSE [sps[i] EXCEPT !.look =
                     IF InPeriod(sps[i].doc, key) /\ matchesQuery(sps[i].doc, query, byId)
                     THEN "active" ELSE "dimmed"]]

\* the destructuring of PERIODS[key] throws for an inherited name, before
\* any sprite is styled
UpdateVisibility(key, query) ==
    IF key \in InheritedNames
    THEN /\ sprites' = sprites
         /\ thrown' = TRUE
    ELSE /\ sprites' = Restyled(sprites, key, query, BY_ID)
         /\ thrown' = (FirstThrow(sprites, query) # 0)

\* the contents the two files may have when the cloud page reads them
ArchiveClouds == { <<>>, <<Item1, Item3>>, <<Item2, Item3>> }

ArchiveByIds ==
    { EmptyById,
      ById1(Rec(Str(S_FlyerFile), Undef, Undef, Undef, Arr(<<Str(S_Strikers)>>), Undef)) }

S_tagLabor == TagPrefix \o S_labor
S_tagLab == TagPrefix \o <<"l","a","b">>
S_lab == <<"l","a","b">>
S_flyer == <<"f","l","y","e","r">>
S_strikeTAGStrikers == S_strike \o <<" ","T","A","G",":">> \o S_Strikers

\* location.hash without its '#', as the hashchange listener may read it
HashKeys == {NoEra, "thick", "bogus", "constructor"}

\* card.style.display before any handler has run: the inline style of
\* #infoCard is either unset or 'none'
CardDisplays(p) == IF p = "cloud" THEN {"", "none"} ELSE {"none"}

\* what the user may type into the search box of the cloud page
SearchInputs == {S_blank, S_tagLabor, S_tagLab, S_lab, S_flyer, S_strikeTAGStrikers}

InitCloud ==
    /\ page = "cloud"
    /\ location = NoParams
    /\ fetchCloud = Pending
    /\ fetchById = Pending
    /\ pc = "await"
    /\ CLOUD = <<>>
    /\ BY_ID = EmptyById
    /\ DOCS = <<>>
    /\ allTags = <<>>
    /\ q = <<>>
    /\ activeTags = <<>>
    /\ activeEra = NoEra
    /\ elsQ = <<>>
    /\ elsSort = "relevance"
    /\ boxes = <<>>
    /\ chips = {}
    /\ url = NoParams
    /\ meta = -1
    /\ results = <<>>
    /\ thrown = FALSE
    /\ searchQuery = <<>>
    /\ activePeriodKey = NoEra
    /\ loading = {}
    /\ sprites = <<>>
    /\ selectedObj = 0
    /\ selectionRing = FALSE
    /\ cardDisplay \in CardDisplays(page)

\* fetch(cloud.resources.json).then(r => r.json()) settles
ArchiveCloudResolves ==
    /\ page = "cloud"
    /\ fetchCloud.st = "pending"
    /\ \E c \in ArchiveClouds : fetchCloud' = [st |-> "ok", data |-> c]
    /\ UNCHANGED <<page, fetchById, pc, CLOUD, BY_ID, DOCS, thrown, cloudVars,
                   searchPageVars>>

ArchiveCloudFails ==
    /\ page = "cloud"
    /\ fetchCloud.st = "pending"
    /\ fetchCloud' = [st |-> "failed", data |-> <<>>]
    /\ UNCHANGED <<page, fetchById, pc, CLOUD, BY_ID, DOCS, thrown, cloudVars,
                   searchPageVars>>

\* fetch(resources.byId.json).then(r => r.json()) settles
ArchiveByIdResolves ==
    /\ page = "cloud"
    /\ fetchById.st = "pending"
    /\ \E b \in ArchiveByIds : fetchById' = [st |-> "ok", data |-> b]
    /\ UNCHANGED <<page, fetchCloud, pc, CLOUD, BY_ID, DOCS, thrown, cloudVars,
                   searchPageVars>>

ArchiveByIdFails ==
    /\ page = "cloud"
    /\ fetchById.st = "pending"
    /\ fetchById' = [st |-> "failed", data |-> <<>>]
    /\ UNCHANGED <<page, fetchCloud, pc, CLOUD, BY_ID, DOCS, thrown, cloudVars,
                   searchPageVars>>

\* Promise.all rejects as soon as one fetch has failed; init() ends there
ArchiveInitFails ==
    /\ page = "cloud"
    /\ pc = "await"
    /\ fetchCloud.st = "failed" \/ fetchById.st = "failed"
    /\ pc' = "failed"
    /\ UNCHANGED <<page, fetchCloud, fetchById, CLOUD, BY_ID, DOCS, thrown,
                   cloudVars, searchPageVars>>

\* the rest of init() once both fetches have resolved: loadArchiveData's
\* assignments, buildDocsFromData, buildSprites (one texture load per
\* Document), and the listeners
ArchiveInitContinues ==
    /\ page = "cloud"
    /\ pc = "await"
    /\ AllResolved
    /\ CLOUD' = fetchCloud.data
    /\ BY_ID' = fetchById.data
    /\ DOCS' = buildDocsFromData(CLOUD', BY_ID')
    /\ loading' = 1..Len(DOCS')
    /\ pc' = "ready"
    /\ UNCHANGED <<page, fetchCloud, fetchById, thrown, searchQuery,
                   activePeriodKey, sprites, selectionVars, searchPageVars>>

\* onLoad of loader.load: the sprite is created at full opacity and pushed
TextureLoads ==
    /\ page = "cloud"
    /\ \E i \in loading :
          /\ loading' = loading \ {i}
          /\ sprites' = Append(sprites, [doc |-> DOCS[i], look |-> "new"])
    /\ UNCHANGED <<page, fetchCloud, fetchById, pc, CLOUD, BY_ID, DOCS, thrown,
                   searchQuery, activePeriodKey, selectionVars, searchPageVars>>

\* onError of loader.load: the failure is logged, no sprite is created
TextureFails ==
    /\ page = "cloud"
    /\ \E i \in loading : loading' = loading \ {i}
    /\ UNCHANGED <<page, fetchCloud, fetchById, pc, CLOUD, BY_ID, DOCS, thrown,
                   searchQuery, activePeriodKey, sprites, selectionVars,
                   searchPageVars>>

\* input event on the search box
SearchInput ==
    /\ page = "cloud"
    /\ pc = "ready"
    /\ \E v \in SearchInputs :
          /\ searchQuery' = v
          /\ UpdateVisibility(activePeriodKey, v)
    /\ UNCHANGED <<page, fetchCloud, fetchById, pc, CLOUD, BY_ID, DOCS,
                   activePeriodKey, loading, selectionVars, searchPageVars>>

\* click on the clear button of the search box
SearchClear ==
    /\ page = "cloud"
    /\ pc = "ready"
    /\ searchQuery' = <<>>
    /\ UpdateVisibility(activePeriodKey, <<>>)
    /\ UNCHANGED <<page, fetchCloud, fetchById, pc, CLOUD, BY_ID, DOCS,
                   activePeriodKey, loading, selectionVars, searchPageVars>>

\* click on a period chip: clearHighlight on the active one, otherwise
\* applyHighlightForPeriod
PeriodClick ==
    /\ page = "cloud"
    /\ pc = "ready"
    /\ \E key \in EraKeys :
          LET now == IF activePeriodKey = key THEN NoEra ELSE key
          IN  /\ activePeriodKey' = now
              /\ UpdateVisibility(now, searchQuery)
    /\ UNCHANGED <<page, fetchCloud, fetchById, pc, CLOUD, BY_ID, DOCS,
                   searchQuery, loading, selectionVars, searchPageVars>>

\* hashchange: applyHighlightForPeriod when PERIODS[key] is truthy, otherwise
\* clearHighlight
HashChange ==
    /\ page = "cloud"
    /\ pc = "ready"
    /\ \E key \in HashKeys :
          LET now == IF PeriodsTruthy(key) THEN key ELSE NoEra
          IN  /\ activePeriodKey' = now
              /\ UpdateVisibility(now, searchQuery)
    /\ UNCHANGED <<page, fetchCloud, fetchById, pc, CLOUD, BY_ID, DOCS,
                   searchQuery, loading, selectionVars, searchPageVars>>

\* selectSprite throws at (meta.tags ?? []).forEach when tags is a string
selectSpriteThrows(doc) == doc.tags.t \notin {"array", "null", "undefined"}

\* window click with the pointer over sprite i: selectSprite replaces the
\* ring, records the sprite, fills the card and, last, displays it
SpriteClick ==
    /\ page = "cloud"
    /\ \E i \in 1..Len(sprites) :
          /\ selectedObj' = i
          /\ selectionRing' = TRUE
          /\ cardDisplay' = IF selectSpriteThrows(sprites[i].doc) THEN cardDisplay
                            ELSE "block"
          /\ thrown' = selectSpriteThrows(sprites[i].doc)
    /\ UNCHANGED <<page, fetchCloud, fetchById, pc, CLOUD, BY_ID, DOCS,
                   searchQuery, activePeriodKey, loading, sprites, searchPageVars>>

\* window click with no sprite under the pointer: clearSelection
EmptyClick ==
    /\ page = "cloud"
    /\ selectedObj' = 0
    /\ selectionRing' = FALSE
    /\ cardDisplay' = "none"
    /\ thrown' = FALSE
    /\ UNCHANGED <<page, fetchCloud, fetchById, pc, CLOUD, BY_ID, DOCS,
                   searchQuery, activePeriodKey, loading, sprites, searchPageVars>>

\* keydown Escape on the window: the card is hidden when its inline display
\* is not 'none', otherwise the highlight is cleared
EscapeKey ==
    /\ page = "cloud"
    /\ pc = "ready"
    /\ IF cardDisplay # "none"
       THEN /\ cardDisplay' = "none"
            /\ thrown' = FALSE
            /\ UNCHANGED <<activePeriodKey, sprites>>
       ELSE /\ activePeriodKey' = NoEra
            /\ UpdateVisibility(NoEra, searchQuery)
            /\ UNCHANGED cardDisplay
    /\ UNCHANGED <<page, fetchCloud, fetchById, pc, CLOUD, BY_ID, DOCS,
                   searchQuery, loading, selectedObj, selectionRing,
                   searchPageVars>>

NextCloud ==
    \/ ArchiveCloudResolves
    \/ ArchiveCloudFails
    \/ ArchiveByIdResolves
    \/ ArchiveByIdFails
    \/ ArchiveInitFails
    \/ ArchiveInitContinues
    \/ TextureLoads
    \/ TextureFails
    \/ SearchInput
    \/ SearchClear
    \/ PeriodClick
    \/ HashChange
    \/ SpriteClick
    \/ EmptyClick
    \/ EscapeKey

SpecCloud == InitCloud /\ [][NextCloud]_vars

----------------------------------------------------------------------------
(* Startup of either page *)

InitStartup ==
    /\ page \in {"search", "cloud"}
    /\ location = NoParams
    /\ fetchCloud = Pending
    /\ fetchById = Pending
    /\ pc = "await"
    /\ CLOUD = <<>>
    /\ BY_ID = EmptyById
    /\ DOCS = <<>>
    /\ allTags = <<>>
    /\ q = <<>>
    /\ activeTags = <<>>
    /\ activeEra = NoEra
    /\ elsQ = <<>>
    /\ elsSort = "relevance"
    /\ boxes = <<>>
    /\ chips = {}
    /\ url = NoParams
    /\ meta = -1
    /\ results = <<>>
    /\ thrown = FALSE
    /\ searchQuery = <<>>
    /\ activePeriodKey = NoEra
    /\ loading = {}
    /\ sprites = <<>>
    /\ selectedObj = 0
    /\ selectionRing = FALSE
    /\ cardDisplay \in CardDisplays(page)

NextStartup ==
    \/ CloudResolves
    \/ CloudFails
    \/ ByIdResolves
    \/ ByIdFails
    \/ InitFails
    \/ InitContinues
    \/ QueryInput
    \/ ClearClick
    \/ SortChange
    \/ TagChange
    \/ EraClick
    \/ ArchiveCloudResolves
    \/ ArchiveCloudFails
    \/ ArchiveByIdResolves
    \/ ArchiveByIdFails
    \/ ArchiveInitFails
    \/ ArchiveInitContinues
    \/ TextureLoads
    \/ TextureFails
    \/ SearchInput
    \/ SearchClear
    \/ PeriodClick
    \/ HashChange
    \/ SpriteClick
    \/ EmptyClick
    \/ EscapeKey

SpecStartup == InitStartup /\ [][NextStartup]_vars

\* nothing has been built or rendered
NothingBuilt ==
    /\ CLOUD = <<>> /\ DOCS = <<>> /\ allTags = <<>>
    /\ boxes = <<>> /\ chips = {} /\ results = <<>> /\ meta = -1
    /\ loading = {} /\ sprites = <<>>

\* C19: startup is all-or-nothing on both pages.  The two fetches are
\* outstanding together from the start; whatever the order in which they
\* settle, the Document collection is built and the tag list, the results
\* and the sprites are rendered only once both have resolved, and then the
\* collection holds one Document per item fetched; while a fetch is pending
\* or once one has failed, the collection is empty and no tag list, result
\* or sprite has been rendered.
C19_AllOrNothing ==
    /\ (fetchCloud.st # "ok" \/ fetchById.st # "ok") => (NothingBuilt /\ pc # "ready")
    /\ pc = "ready" =>
          /\ fetchCloud.st = "ok" /\ fetchById.st = "ok"
          /\ Len(DOCS) = Len(fetchCloud.data)
          /\ \A i \in 1..Len(DOCS) : DOCS[i].id = fetchCloud.data[i].id
    /\ pc = "failed" => (NothingBuilt /\ (fetchCloud.st = "failed" \/ fetchById.st = "failed"))
    /\ ~NothingBuilt => pc = "ready"
    /\ \A i \in 1..Len(sprites) : \E k \in 1..Len(DOCS) : sprites[i].doc = DOCS[k]

\* both fetches have resolved on the cloud page and two sprites are shown
C19_Witness ==
    /\ page = "cloud" /\ pc = "ready"
    /\ fetchCloud.st = "ok" /\ fetchById.st = "ok"
    /\ Len(DOCS) >= 2 /\ Len(sprites) >= 2

----------------------------------------------------------------------------
(* Properties of the cloud page, checked under SpecCloud *)

\* the strings of a tag collection
TagSetOf(v) == IF v.t = "array" THEN {String(v.a[i]) : i \in 1..Len(v.a)} ELSE {}

\* the tags of the Document together with those of its source-B record
TagUnion(doc, byId) ==
    TagSetOf(doc.tags) \cup TagSetOf(Lookup(byId, String(doc.id)).tags)

IsTagTokenClaim(t) ==
    Len(t) > Len(TagPrefix) /\ EqIgnoreCase(SubSeq(t, 1, Len(TagPrefix)), TagPrefix)

\* the text match of the cloud page as the specification states it
QueryClaim(doc, query, byId) ==
    \A t \in TokensOf(query) :
        IF IsTagTokenClaim(t)
        THEN \E u \in TagUnion(doc, byId) :
                EqIgnoreCase(u, SubSeq(t, Len(TagPrefix) + 1, Len(t)))
        ELSE \/ ContainsIgnoreCase(displayTitleFor(doc, byId), t)
             \/ doc.description.t = "string" /\ ContainsIgnoreCase(doc.description.s, t)
             \/ \E u \in TagUnion(doc, byId) : ContainsIgnoreCase(u, t)

\* C20: on the cloud page matchesQuery returns, for every Document and
\* query it is called with, whether all tokens of the query pass, where a
\* token tag:<value> passes exactly when <value> equals, ignoring case, a
\* tag of the Document or of its source-B record (a tag that merely contains
\* <value> does not count), and every other token passes exactly when it is
\* a case-insensitive substring of the display title, the description or a
\* tag; so no search or period event ends in an exception, and with no
\* period highlighted every sprite that has been styled is active exactly
\* when its Document passes.
C20_MatchesQuery ==
    /\ \A i \in 1..Len(DOCS) :
          ~matchesQueryThrows(DOCS[i], searchQuery) =>
             (matchesQuery(DOCS[i], searchQuery, BY_ID)
                 <=> QueryClaim(DOCS[i], searchQuery, BY_ID))
    /\ page = "cloud" => ~thrown
    /\ (page = "cloud" /\ activePeriodKey = NoEra) =>
          \A i \in 1..Len(sprites) :
              sprites[i].look # "new" =>
                 (sprites[i].look = "active"
                     <=> QueryClaim(sprites[i].doc, searchQuery, BY_ID))

----------------------------------------------------------------------------
(* The two pages compared, checked under SpecBuild *)

\* the title the cloud page shows for the i-th item of source A
CloudTitle(i) == displayTitleFor(buildDocFromData(CLOUD[i], BY_ID), BY_ID)

\* C21: for the same source-A item and source-B map, the title the cloud
\* page shows (displayTitleFor of the Document of buildDocsFromData) is the
\* title of the Document buildDocs builds on the search page: the source-B
\* title before the source-A title before "Untitled", cleaned only when it
\* holds an underscore.
C21_SameTitles ==
    Built => \A i \in 1..Len(CLOUD) :
                /\ CloudTitle(i) = DOCS[i].title
                /\ CloudTitle(i) = DisplayOf(RawTitleOf(CLOUD[i], RecFor(i)))

----------------------------------------------------------------------------
(* Further properties of the normalizers, checked under SpecBuild *)

\* the tags a sequence of raw candidates yields: trimmed, well formed, the
\* first occurrence of each value ignoring case, in order
TagsFrom(raw) ==
    LET c     == [j \in 1..Len(raw) |-> trim(raw[j])]
        first == {j \in 1..Len(c) :
                    /\ WellFormedTag(c[j])
                    /\ \A j2 \in 1..(j-1) : ~EqIgnoreCase(c[j2], c[j])}
    IN  [k \in 1..Cardinality(first) |->
            c[CHOOSE j \in first : Cardinality({j2 \in first : j2 <= j}) = k]]

\* C22: coerceTags falls back to topics whenever the primary and the
\* secondary source together yield no tag, blank entries such as " " or ","
\* included: the tags of the Document are then those derived from topics;
\* and when the primary or the secondary source yields at least one tag,
\* topics are not used.
C22_TopicsFallback ==
    Built => \A i \in 1..Len(CLOUD) :
                LET main == TagsFrom(pushAny(RecFor(i).tags) \o pushAny(CLOUD[i].tags))
                IN  DOCS[i].tags = IF Len(main) = 0
                                   THEN TagsFrom(pushAny(RecFor(i).topics))
                                   ELSE main

\* the file names the cleaning rule is evaluated on
FileNames ==
    {S_CoalitionFile, S_PathFile, S_FlyerFile, S_a_b, S_a_b_cPdf, S_SlashFile,
     S_MessyFile, S_Labor, S_empty}

UnderscoreSegments(name) == Cardinality({i \in 1..Len(name) : name[i] = "_"}) + 1

\* the display name the rule describes, position by position: what follows
\* the last slash (the whole name when nothing follows it), up to a final
\* dot that is followed only by letters and digits, after the third
\* underscore, with underscores and hyphens read as blanks and the words
\* joined by single spaces
CleanClaim(name) ==
    LET slashes == {i \in 1..Len(name) : name[i] = "/"}
        cut     == IF slashes = {} THEN 0
                   ELSE CHOOSE i \in slashes : \A j \in slashes : j <= i
        base    == IF cut = Len(name) THEN name ELSE SubSeq(name, cut + 1, Len(name))
        dots    == {i \in 1..(Len(base) - 1) :
                      base[i] = "." /\ \A j \in (i+1)..Len(base) : IsAlnum(base[j])}
        noExt   == IF dots = {} THEN base
                   ELSE SubSeq(base, 1, (CHOOSE i \in dots : TRUE) - 1)
        unders  == {i \in 1..Len(noExt) : noExt[i] = "_"}
        third   == CHOOSE i \in unders :
                      Cardinality({j \in unders : j <= i}) = 3
        rest    == IF Cardinality(unders) < 3 THEN <<>>
                   ELSE SubSeq(noExt, third + 1, Len(noExt))
        blanked == [k \in 1..Len(rest) |->
                      IF rest[k] \in {"_", "-"} \cup Spaces THEN " " ELSE rest[k]]
    IN  Join(SelectNonEmpty(SplitOn(blanked, {" "}, <<>>)), <<" ">>)

----------------------------------------------------------------------------
(* Sprites and filters of the cloud page, checked under SpecCloud *)

\* a period is highlighted or the search text is not blank
FilterActive == activePeriodKey \in EraKeys \/ trim(searchQuery) # <<>>

\* the combined period-and-search predicate for the current filter
PassesCloudFilter(doc) ==
    /\ activePeriodKey \in EraKeys => EraClaim(numericYear(doc.year), activePeriodKey)
    /\ QueryClaim(doc, searchQuery, BY_ID)

\* C24: on the cloud page, in every state reached by interleaving texture
\* loads with search input, period chip clicks and hash changes, whenever a
\* period or a non-blank query is active every sprite in the scene whose
\* Document fails the period-and-search predicate is dimmed, sprites whose
\* texture arrived after the filter was applied included.  States left by
\* a handler that ended in an exception, and Documents on which matchesQuery
\* throws, are set aside, so that a violation is one of styling and not of
\* a failed handler.
C24_FailingSpritesDimmed ==
    (page = "cloud" /\ ~thrown /\ FilterActive) =>
        \A i \in 1..Len(sprites) :
            (/\ ~matchesQueryThrows(sprites[i].doc, searchQuery)
             /\ ~PassesCloudFilter(sprites[i].doc))
                => sprites[i].look = "dimmed"

----------------------------------------------------------------------------
(* Filter state and controls of the search page, checked under Spec *)

\* C25: on the search page, in every state reached from any start URL by
\* tag-checkbox, era, query and sort interactions, every active tag is a
\* tag of the Tag Index, and so has a checkbox through which it can be
\* deactivated.
C25_ActiveTagsInIndex ==
    (page = "search" /\ Ready) =>
        /\ Range(activeTags) \subseteq Range(allTags)
        /\ \A t \in Range(activeTags) : \E i \in 1..Len(boxes) : boxes[i].value = t

\* C26: once init of the search page has completed, and after every later
\* interaction, the controls mirror the filter state: a tag checkbox is
\* checked exactly when its tag is active, and the era chip marked active is
\* exactly the active era, none being marked when no era is active; also
\* when the state came from the tags and era parameters of the URL.  An
\* active era that is not one of the three keys is set aside.
C26_ControlsMirrorState ==
    (page = "search" /\ Ready) =>
        /\ \A i \in 1..Len(boxes) :
              boxes[i].checked <=> boxes[i].value \in Range(activeTags)
        /\ activeEra \in EraKeys => chips = {activeEra}
        /\ activeEra = NoEra => chips = {}

----------------------------------------------------------------------------
(* Selection on the cloud page, checked under SpecCloud *)

\* C27: on the cloud page, after any sequence of sprite clicks, empty-space
\* clicks and Escape key presses, a sprite is selected exactly when a
\* selection ring is in the scene and exactly when the info card is
\* displayed.  A selection on whose Document selectSprite throws is set
\* aside, and so is a card whose inline display has never been set.
C27_SelectionTogether ==
    (/\ page = "cloud"
     /\ selectedObj # 0 => ~selectSpriteThrows(sprites[selectedObj].doc)) =>
        /\ selectedObj # 0 <=> selectionRing
        /\ cardDisplay = "block" => selectedObj # 0
        /\ (selectedObj # 0 /\ cardDisplay # "") => cardDisplay = "block"

====
